---- MODULE Spec2Model ----
(***************************************************************************)
(* Model of the valkey-metrics export scripts:                             *)
(*   github_prs_to_csv.py, github_weekly_trends.py, contributors_weekly.py *)
(*   and major_decision_weekly.py.                                         *)
(*                                                                         *)
(* Representation.                                                         *)
(*   - a Python date is its proleptic Gregorian ordinal (date.toordinal),  *)
(*     a Python datetime in UTC is a record [ord, sec];                    *)
(*   - a text in one of the date formats is the tuple of its numeric       *)
(*     fields: "2024-01-01T10:00:00Z" is <<2024,1,1,10,0,0>>, "2024-01-01" *)
(*     is <<2024,1,1>>; the fields are zero padded and of fixed width in   *)
(*     the text, so the order of texts is the lexicographic order of the   *)
(*     tuples.  None and the empty text are <<>>.                          *)
(***************************************************************************)
EXTENDS Integers, Sequences, FiniteSets, TLC

VARIABLES
    \* ---- time bucketing of one pair of timestamps (SpecBucket)
    b_fn,       \* which bucketing pipeline is applied
    b_ts,       \* <<t1, t2>>: the two wire timestamps
    b_key,      \* <<>> or <<k1, k2>>: the CSV keys of t1 and t2
    b_again,    \* <<>> or <<k>>: the key of k1 read back and bucketed again
    \* ---- daterange_chunks (SpecChunks)
    c_variant,  \* "prs" (dates) or "trends" (ISO date texts)
    c_start, c_end, c_chunk_days,   \* the arguments
    c_cur,      \* the loop cursor
    c_out,      \* the chunks yielded so far
    c_pc,       \* "loop" or "done"
    \* ---- one paginated fetch against a server (SpecFetch)
    s_ft,       \* the fetch: [fn, page, items, st, maxp]
    s_srv,      \* the records the server holds for the query, in its order
    s_log,      \* the requests issued: [page, status, n] each
    s_wait,     \* the fetch is in time.sleep(5) after a rate-limit answer
    \* ---- one run of one of the four scripts (Spec)
    script,     \* "prs", "trends", "contrib" or "major"
    args,       \* the parsed command line and environment
    pc,         \* "start", "chunk", "fetch", "pull", "done" or "failed"
    err,        \* why the run failed, "" while it has not
    win,        \* <<start, end>>: the window, dates
    sec,        \* the section of main being executed (index in Sections)
    cur,        \* the cursor of the section's daterange_chunks generator
    did,        \* a section without chunks: its one fetch has been made
    ft,         \* the fetch in progress
    q_left,     \* records of the current query the server has not sent yet
    budget,     \* records the server may still find for the queries to come
    qbudget,    \* queries to come that the server may still find records for
    table,      \* the section's aggregation table, in insertion order
    ctable,     \* contributors_weekly_sets of github_weekly_trends
    pending,    \* github_prs_to_csv, merged: the items still to be looked up
    out,        \* the files written so far: [path, rows] in the order written
    net,        \* the number of requests issued so far
    last,       \* the status of the last response, 0 before the first
    retries,    \* 403 answers in a row to the current request
    \* ---- one aggregation loop over the records of some fetches (SpecAgg)
    a_sc,       \* the section of main whose loop it is
    a_args,     \* the arguments the loop reads: [bucket, exclude_bots]
    a_win,      \* <<start, end>>: the window, dates
    a_fed,      \* the records the fetches have returned so far, in order
    a_cuts,     \* how many records each fetch returned
    a_table,    \* the aggregation table, in insertion order
    a_ctable,   \* contributors_weekly_sets of github_weekly_trends
    a_out,      \* the files written
    a_pc        \* "loop", "done" or "failed"

bucketVars == <<b_fn, b_ts, b_key, b_again>>
chunkVars  == <<c_variant, c_start, c_end, c_chunk_days, c_cur, c_out, c_pc>>
fetchVars  == <<s_ft, s_srv, s_log, s_wait>>
runVars    == <<script, args, pc, err, win, sec, cur, did, ft, q_left, budget,
               qbudget, table, ctable, pending, out, net, last, retries>>
aggVars    == <<a_sc, a_args, a_win, a_fed, a_cuts, a_table, a_ctable, a_out,
               a_pc>>
vars == <<bucketVars, chunkVars, fetchVars, runVars, aggVars>>

(***************************************************************************)
(* Calendar: what datetime.date does with year, month, day and ordinals.   *)
(***************************************************************************)
IsLeap(y) == (y % 4 = 0) /\ ((y % 100 # 0) \/ (y % 400 = 0))

DaysInMonth(y, m) ==
    IF m = 2 THEN (IF IsLeap(y) THEN 29 ELSE 28)
    ELSE IF m \in {4, 6, 9, 11} THEN 30 ELSE 31

DaysBeforeYear(y) ==
    (y - 1) * 365 + ((y - 1) \div 4) - ((y - 1) \div 100) + ((y - 1) \div 400)

RECURSIVE DaysBeforeMonth(_, _)
DaysBeforeMonth(y, m) ==
    IF m = 1 THEN 0 ELSE DaysBeforeMonth(y, m - 1) + DaysInMonth(y, m - 1)

\* date(y, m, d).toordinal()
Ymd2Ord(y, m, d) == DaysBeforeYear(y) + DaysBeforeMonth(y, m) + d

RECURSIVE MonthOf(_, _, _)
MonthOf(y, m, n) ==    \* n: zero-based day of the year y, searched from month m
    IF n < DaysInMonth(y, m) THEN <<m, n + 1>>
    ELSE MonthOf(y, m + 1, n - DaysInMonth(y, m))

\* date.fromordinal(n) as <<year, month, day>>
Ord2Ymd(n) ==
    LET n0   == n - 1
        n400 == n0 \div 146097
        r400 == n0 % 146097
        n100 == r400 \div 36524
        r100 == r400 % 36524
        n4   == r100 \div 1461
        r4   == r100 % 1461
        n1   == r4 \div 365
        r1   == r4 % 365
        year == n400 * 400 + 1 + n100 * 100 + n4 * 4 + n1
    IN  IF n1 = 4 \/ n100 = 4 THEN <<year - 1, 12, 31>>
        ELSE LET md == MonthOf(year, 1, r1) IN <<year, md[1], md[2]>>

\* date.weekday(): Monday is 0
Weekday(ord) == (ord + 6) % 7

(***************************************************************************)
(* Texts: parsing and formatting.                                          *)
(***************************************************************************)
ValidYmd(y, m, d) ==
    /\ y \in 1..9999
    /\ m \in 1..12
    /\ d >= 1
    /\ d <= DaysInMonth(y, m)

\* does strptime(ts, "%Y-%m-%dT%H:%M:%SZ") succeed
ParsesIsoZ(ts) ==
    /\ Len(ts) = 6
    /\ ValidYmd(ts[1], ts[2], ts[3])
    /\ ts[4] \in 0..23
    /\ ts[5] \in 0..59
    /\ ts[6] \in 0..61

\* datetime.strptime(ts, "%Y-%m-%dT%H:%M:%SZ").replace(tzinfo=timezone.utc)
parse_iso_z(ts) ==
    [ord |-> Ymd2Ord(ts[1], ts[2], ts[3]),
     sec |-> ts[4] * 3600 + ts[5] * 60 + ts[6]]

\* dt.strftime("%Y-%m-%dT%H:%M:%SZ")
StrftimeIsoZ(dt) ==
    LET ymd == Ord2Ymd(dt.ord)
    IN  <<ymd[1], ymd[2], ymd[3],
          dt.sec \div 3600, (dt.sec % 3600) \div 60, dt.sec % 60>>

\* datetime(y, m, d, tzinfo=timezone.utc)
MidnightOf(ymd) == [ord |-> Ymd2Ord(ymd[1], ymd[2], ymd[3]), sec |-> 0]

\* the order of two texts of the same format (Python's str <)
RECURSIVE TextLess(_, _)
TextLess(a, b) ==
    IF b = <<>> THEN FALSE
    ELSE IF a = <<>> THEN TRUE
    ELSE IF Head(a) # Head(b) THEN Head(a) < Head(b)
    ELSE TextLess(Tail(a), Tail(b))

(***************************************************************************)
(* TimeBucketer.                                                           *)
(***************************************************************************)
\* a bucket_key whose weekly branch steps back one day too many
bucket_key_offbyone(dt, bucket) ==
    LET ymd == Ord2Ymd(dt.ord)
    IN  IF bucket = "daily" THEN StrftimeIsoZ(MidnightOf(ymd))
        ELSE IF bucket = "weekly"
        THEN LET monday == [ord |-> dt.ord - (Weekday(dt.ord) + 1), sec |-> dt.sec]
             IN  StrftimeIsoZ(MidnightOf(Ord2Ymd(monday.ord)))
        ELSE StrftimeIsoZ(MidnightOf(<<ymd[1], ymd[2], 1>>))

\* github_prs_to_csv.bucket_key: the key is already the CSV text
bucket_key(dt, bucket) ==
    LET ymd == Ord2Ymd(dt.ord)
    IN  IF bucket = "daily" THEN StrftimeIsoZ(MidnightOf(ymd))
        ELSE IF bucket = "weekly"
        THEN LET monday == [ord |-> dt.ord - Weekday(dt.ord), sec |-> dt.sec]
             IN  StrftimeIsoZ(MidnightOf(Ord2Ymd(monday.ord)))
        ELSE StrftimeIsoZ(MidnightOf(<<ymd[1], ymd[2], 1>>))

\* a monday_bucket that takes Sunday for the first day of the week
monday_bucket_sunday(dtime) ==
    LET d == dtime.ord IN d - ((Weekday(d) + 1) % 7)

\* github_weekly_trends.monday_bucket: a date
monday_bucket(dtime) ==
    LET d == dtime.ord IN d - Weekday(d)

\* github_weekly_trends.month_bucket: a date
month_bucket(dtime) ==
    LET ymd == Ord2Ymd(dtime.ord) IN Ymd2Ord(ymd[1], ymd[2], 1)

\* contributors_weekly.monday_bucket: a datetime at midnight
monday_bucket_contrib(dt) ==
    LET monday == [ord |-> dt.ord - Weekday(dt.ord), sec |-> dt.sec]
    IN  MidnightOf(Ord2Ymd(monday.ord))

\* contributors_weekly.iso_z
iso_z(dt) == StrftimeIsoZ(dt)

\* major_decision_weekly.monday_bucket: a date
monday_bucket_major(dt) ==
    LET d == dt.ord IN d - Weekday(d)

\* write_csv's label of a date key k: datetime(k.year, k.month, k.day, 0, 0, 0)
\* formatted with "%Y-%m-%dT00:00:00Z"
iso_label(k) ==
    LET dt  == MidnightOf(Ord2Ymd(k))
        ymd == Ord2Ymd(dt.ord)
    IN  <<ymd[1], ymd[2], ymd[3], 0, 0, 0>>

\* The bucketing pipelines of the four scripts, from the wire timestamp of a
\* record to the text in the time column of the CSV.
BucketFns ==
    {"prs_daily", "prs_weekly", "prs_monthly",
     "trends_weekly", "trends_monthly", "contrib_weekly", "major_weekly"}

WeeklyFns == {"prs_weekly", "trends_weekly", "contrib_weekly", "major_weekly"}

CsvKey(fn, ts) ==
    CASE fn = "prs_daily"      -> bucket_key(parse_iso_z(ts), "daily")
      [] fn = "prs_weekly"     -> bucket_key(parse_iso_z(ts), "weekly")
      [] fn = "prs_monthly"    -> bucket_key(parse_iso_z(ts), "monthly")
      [] fn = "trends_weekly"  -> iso_label(monday_bucket(parse_iso_z(ts)))
      [] fn = "trends_monthly" -> iso_label(month_bucket(parse_iso_z(ts)))
      [] fn = "contrib_weekly" -> iso_z(monday_bucket_contrib(parse_iso_z(ts)))
      [] fn = "major_weekly"   -> iso_label(monday_bucket_major(parse_iso_z(ts)))

(***************************************************************************)
(* SpecBucket: the bucketing pipelines applied to timestamps drawn from a  *)
(* range of days that holds a year boundary inside a week and a leap day.               *)
(***************************************************************************)
BucketDays == 72     \* days after 2019-12-23 that t1 is drawn from
NearDays == 7        \* t2 is at most this many days from t1

BucketFirstDay == Ymd2Ord(2019, 12, 23)

BucketTimes == {<<0, 0, 0>>, <<23, 59, 59>>}

WireOf(ord, hms) ==
    LET ymd == Ord2Ymd(ord) IN <<ymd[1], ymd[2], ymd[3], hms[1], hms[2], hms[3]>>

IdleBucket ==
    /\ b_fn = "prs_daily"
    /\ b_ts = <<>>
    /\ b_key = <<>>
    /\ b_again = <<>>

InitBucket ==
    /\ b_fn \in BucketFns
    /\ \E d1 \in BucketFirstDay .. (BucketFirstDay + BucketDays),
          hms \in BucketTimes,
          off \in (0 - NearDays) .. NearDays :
            b_ts = <<WireOf(d1, hms), WireOf(d1 + off, <<10, 0, 0>>)>>
    /\ b_key = <<>>
    /\ b_again = <<>>

\* the records' timestamps are parsed and bucketed
BucketApply ==
    /\ b_ts # <<>>
    /\ b_key = <<>>
    /\ b_key' = <<CsvKey(b_fn, b_ts[1]), CsvKey(b_fn, b_ts[2])>>
    /\ UNCHANGED <<b_fn, b_ts, b_again>>

\* the key of t1 is read back from the CSV as a timestamp and bucketed again
BucketReadBack ==
    /\ b_key # <<>>
    /\ b_again = <<>>
    /\ b_again' = <<CsvKey(b_fn, b_key[1])>>
    /\ UNCHANGED <<b_fn, b_ts, b_key>>

(***************************************************************************)
(* WindowPlanner: daterange_chunks, one loop iteration per step.           *)
(***************************************************************************)
Min(a, b) == IF a <= b THEN a ELSE b

\* date.isoformat()
isoformat(d) == Ord2Ymd(d)

\* date.fromisoformat / the date a "YYYY-MM-DD" text names
DateOfText(t) == Ymd2Ord(t[1], t[2], t[3])

\* a chunk end that forgets the range is inclusive
ChunkEnd_exclusive(from, end_date, chunk_days) == Min(end_date, from + chunk_days)

\* chunk_end = min(end_date, cur + step) with step = timedelta(days=chunk_days - 1)
ChunkEnd(from, end_date, chunk_days) == Min(end_date, from + (chunk_days - 1))

\* what one iteration yields
ChunkYield(variant, from, chunk_end) ==
    IF variant = "prs" THEN <<from, chunk_end>>
    ELSE <<isoformat(from), isoformat(chunk_end)>>

MaxWindowDays == 6   \* the window is at most this many days after its start
MaxChunkDays == 4    \* largest chunk_days argument
MaxChunks == 8       \* the loop is followed for at most this many chunks

ChunkFirstDay == Ymd2Ord(2023, 12, 29)

IdleChunks ==
    /\ c_variant = "prs"
    /\ c_start = 0
    /\ c_end = 0
    /\ c_chunk_days = 1
    /\ c_cur = 0
    /\ c_out = <<>>
    /\ c_pc = "idle"

InitChunks ==
    /\ c_variant \in {"prs", "trends"}
    /\ c_start \in ChunkFirstDay .. (ChunkFirstDay + MaxWindowDays)
    /\ c_end \in ChunkFirstDay .. (ChunkFirstDay + MaxWindowDays)
    /\ c_chunk_days \in (-1) .. MaxChunkDays
    /\ c_cur = c_start
    /\ c_out = <<>>
    /\ c_pc = "loop"

\* while cur <= end_date: yield (cur, chunk_end); cur = chunk_end + one_day
ChunkStep ==
    /\ c_pc = "loop"
    /\ c_cur <= c_end
    /\ Len(c_out) < MaxChunks
    /\ LET chunk_end == ChunkEnd(c_cur, c_end, c_chunk_days)
       IN  /\ c_out' = Append(c_out, ChunkYield(c_variant, c_cur, chunk_end))
           /\ c_cur' = chunk_end + 1
    /\ UNCHANGED <<c_variant, c_start, c_end, c_chunk_days, c_pc>>

\* the loop condition fails: the generator is exhausted
ChunkExit ==
    /\ c_pc = "loop"
    /\ ~(c_cur <= c_end)
    /\ c_pc' = "done"
    /\ UNCHANGED <<c_variant, c_start, c_end, c_chunk_days, c_cur, c_out>>

(***************************************************************************)
(* PaginatedFetcher: the fetch loops of the four scripts.  A fetch is the  *)
(* record [fn, page, items, st, maxp]: st is "req" when the next thing the *)
(* loop does is to request page `page`, "ret" when the function has        *)
(* returned items, "abort" when it has raised.  Each operator below is one *)
(* loop iteration: the request, answered with `status`, the page `batch`   *)
(* and (for the Link header) `hasNext`, up to the next request.            *)
(***************************************************************************)
PerPage == 2         \* stands for per_page = 100 of every fetcher

\* the HTTP statuses the server answers with: success, the rate-limit
\* status the code knows (403), and other client and server errors
Statuses == {200, 403, 422, 429, 500}

\* the fetchers that stop at max_pages
CappedFetchers == {"fetch_search", "search_items", "fetch_commits"}
\* the fetchers that ask for page numbers
PageFetchers == CappedFetchers \cup {"search_label"}
\* the fetchers that follow the Link header
LinkFetchers == {"list_commits", "list_releases"}
Fetchers == PageFetchers \cup LinkFetchers

\* the state before the first iteration; range(1, max_pages + 1) is empty
\* when max_pages < 1
FetchInit(fn, maxp) ==
    [fn |-> fn, page |-> 1, items |-> <<>>, maxp |-> maxp,
     st |-> IF fn \in CappedFetchers /\ maxp < 1 THEN "ret" ELSE "req"]

\* a fetch_search that stops on a full page
fetch_search_le(f, status, batch) ==
    IF status # 200 THEN [f EXCEPT !.st = "abort"]
    ELSE LET all_items == f.items \o batch
         IN  IF Len(batch) <= PerPage \/ f.page = f.maxp
             THEN [f EXCEPT !.items = all_items, !.st = "ret"]
             ELSE [f EXCEPT !.items = all_items, !.page = f.page + 1]

\* a fetch_search that asks for every other page
fetch_search_skip(f, status, batch) ==
    IF status # 200 THEN [f EXCEPT !.st = "abort"]
    ELSE LET all_items == f.items \o batch
         IN  IF Len(batch) < PerPage \/ f.page = f.maxp
             THEN [f EXCEPT !.items = all_items, !.st = "ret"]
             ELSE [f EXCEPT !.items = all_items, !.page = f.page + 2]

\* github_prs_to_csv.fetch_search
fetch_search(f, status, batch) ==
    IF status # 200 THEN [f EXCEPT !.st = "abort"]
    ELSE LET all_items == f.items \o batch
         IN  IF Len(batch) < PerPage \/ f.page = f.maxp
             THEN [f EXCEPT !.items = all_items, !.st = "ret"]
             ELSE [f EXCEPT !.items = all_items, !.page = f.page + 1]

\* a search_items that leaves the loop on a short page before keeping it
search_items_drop_last(f, status, batch) ==
    IF status >= 400 THEN [f EXCEPT !.st = "abort"]
    ELSE IF Len(batch) < PerPage THEN [f EXCEPT !.st = "ret"]
    ELSE LET items == f.items \o batch
         IN  IF f.page = f.maxp
             THEN [f EXCEPT !.items = items, !.st = "ret"]
             ELSE [f EXCEPT !.items = items, !.page = f.page + 1]

\* github_weekly_trends.search_items (raise_for_status raises on 4xx and 5xx)
search_items(f, status, batch) ==
    IF status >= 400 THEN [f EXCEPT !.st = "abort"]
    ELSE LET items == f.items \o batch
         IN  IF Len(batch) < PerPage \/ f.page = f.maxp
             THEN [f EXCEPT !.items = items, !.st = "ret"]
             ELSE [f EXCEPT !.items = items, !.page = f.page + 1]

\* a fetch_commits that falls back to the pages it has when a request fails
fetch_commits_partial(f, status, batch) ==
    IF status # 200 THEN [f EXCEPT !.st = "ret"]
    ELSE IF batch = <<>> THEN [f EXCEPT !.st = "ret"]
    ELSE LET all_commits == f.items \o batch
         IN  IF Len(batch) < PerPage \/ f.page = f.maxp
             THEN [f EXCEPT !.items = all_commits, !.st = "ret"]
             ELSE [f EXCEPT !.items = all_commits, !.page = f.page + 1]

\* contributors_weekly.fetch_commits
fetch_commits(f, status, batch) ==
    IF status # 200 THEN [f EXCEPT !.st = "abort"]
    ELSE IF batch = <<>> THEN [f EXCEPT !.st = "ret"]
    ELSE LET all_commits == f.items \o batch
         IN  IF Len(batch) < PerPage \/ f.page = f.maxp
             THEN [f EXCEPT !.items = all_commits, !.st = "ret"]
             ELSE [f EXCEPT !.items = all_commits, !.page = f.page + 1]

\* a search_label without the 403 branch
search_label_no_retry(f, status, batch) ==
    IF status >= 400 THEN [f EXCEPT !.st = "abort"]
    ELSE LET items == f.items \o batch
         IN  IF Len(batch) < PerPage
             THEN [f EXCEPT !.items = items, !.st = "ret"]
             ELSE [f EXCEPT !.items = items, !.page = f.page + 1]

\* a search_label that gives up on a 403 answer and returns what it has
search_label_gives_up(f, status, batch) ==
    IF status = 403 THEN [f EXCEPT !.st = "ret"]
    ELSE IF status >= 400 THEN [f EXCEPT !.st = "abort"]
    ELSE LET items == f.items \o batch
         IN  IF Len(batch) < PerPage
             THEN [f EXCEPT !.items = items, !.st = "ret"]
             ELSE [f EXCEPT !.items = items, !.page = f.page + 1]

\* a search_label that goes on to the next page after a 403 answer
search_label_403_next(f, status, batch) ==
    IF status = 403 THEN [f EXCEPT !.page = f.page + 1]
    ELSE IF status >= 400 THEN [f EXCEPT !.st = "abort"]
    ELSE LET items == f.items \o batch
         IN  IF Len(batch) < PerPage
             THEN [f EXCEPT !.items = items, !.st = "ret"]
             ELSE [f EXCEPT !.items = items, !.page = f.page + 1]

\* major_decision_weekly.search_label: 403 sleeps 5 s and asks again
search_label(f, status, batch) ==
    IF status = 403 THEN f
    ELSE IF status >= 400 THEN [f EXCEPT !.st = "abort"]
    ELSE LET items == f.items \o batch
         IN  IF Len(batch) < PerPage
             THEN [f EXCEPT !.items = items, !.st = "ret"]
             ELSE [f EXCEPT !.items = items, !.page = f.page + 1]

\* github_weekly_trends.list_commits (get_json raises on 4xx and 5xx)
list_commits(f, status, batch, hasNext) ==
    IF status >= 400 THEN [f EXCEPT !.st = "abort"]
    ELSE IF batch = <<>> THEN [f EXCEPT !.st = "ret"]
    ELSE LET commits == f.items \o batch
         IN  IF ~hasNext
             THEN [f EXCEPT !.items = commits, !.st = "ret"]
             ELSE [f EXCEPT !.items = commits, !.page = f.page + 1]

\* github_weekly_trends.list_releases, its fetch loop
list_releases(f, status, batch, hasNext) ==
    IF status >= 400 THEN [f EXCEPT !.st = "abort"]
    ELSE LET releases == f.items \o batch
         IN  IF hasNext
             THEN [f EXCEPT !.items = releases, !.page = f.page + 1]
             ELSE [f EXCEPT !.items = releases, !.st = "ret"]

FetchStep(f, status, batch, hasNext) ==
    CASE f.fn = "fetch_search"  -> fetch_search(f, status, batch)
      [] f.fn = "search_items"  -> search_items(f, status, batch)
      [] f.fn = "fetch_commits" -> fetch_commits(f, status, batch)
      [] f.fn = "search_label"  -> search_label(f, status, batch)
      [] f.fn = "list_commits"  -> list_commits(f, status, batch, hasNext)
      [] f.fn = "list_releases" -> list_releases(f, status, batch, hasNext)

(***************************************************************************)
(* SpecFetch: one fetch against a server that holds s_srv for the query    *)
(* and answers page p with its records (p-1)*PerPage+1 .. p*PerPage, a     *)
(* next link when more records follow, or with an error status.            *)
(***************************************************************************)
MaxSrvRecords == 5   \* most records the server holds for the query
MaxPagesArg == 2     \* largest max_pages argument
MaxRequests == 5     \* the fetch is followed for at most this many requests

\* the page the server answers a request for page p with
PageOf(srv, p) ==
    SubSeq(srv, (p - 1) * PerPage + 1, Min(p * PerPage, Len(srv)))

\* whether the answer to page p carries a next link
HasNext(srv, p) == p * PerPage < Len(srv)

IdleFetch ==
    /\ s_ft = FetchInit("fetch_search", 0)
    /\ s_srv = <<>>
    /\ s_log = <<>>
    /\ s_wait = FALSE

InitFetch ==
    /\ \E fn \in Fetchers, maxp \in 1..MaxPagesArg : s_ft = FetchInit(fn, maxp)
    /\ \E n \in 0..MaxSrvRecords : s_srv = [i \in 1..n |-> i]
    /\ s_log = <<>>
    /\ s_wait = FALSE

\* one request of the loop and the server's answer to it
FetchRequest ==
    /\ s_ft.st = "req"
    /\ Len(s_log) < MaxRequests
    /\ \E status \in Statuses :
        LET batch == IF status = 200 THEN PageOf(s_srv, s_ft.page) ELSE <<>>
            hasNext == status = 200 /\ HasNext(s_srv, s_ft.page)
        IN  /\ s_ft' = FetchStep(s_ft, status, batch, hasNext)
            /\ s_log' = Append(s_log, [page |-> s_ft.page, status |-> status,
                                       n |-> Len(batch)])
    /\ UNCHANGED <<s_srv, s_wait>>

\* the answers the retry loop is looked at through: the last MaxLogged
MaxLogged == 3

LastAnswers(log) ==
    IF Len(log) <= MaxLogged THEN log ELSE SubSeq(log, 2, Len(log))

\* one request of the loop and the server's answer to it, as often as the
\* loop asks; search_label then sleeps when the answer is 403
RetryRequest ==
    /\ s_ft.st = "req"
    /\ ~s_wait
    /\ \E status \in Statuses :
        LET batch == IF status = 200 THEN PageOf(s_srv, s_ft.page) ELSE <<>>
            hasNext == status = 200 /\ HasNext(s_srv, s_ft.page)
        IN  /\ s_ft' = FetchStep(s_ft, status, batch, hasNext)
            /\ s_log' = LastAnswers(Append(s_log, [page |-> s_ft.page,
                                                   status |-> status,
                                                   n |-> Len(batch)]))
            /\ s_wait' = (s_ft.fn = "search_label" /\ status = 403)
    /\ UNCHANGED s_srv

\* time.sleep(5) is over: continue
RetryWake ==
    /\ s_wait
    /\ s_wait' = FALSE
    /\ UNCHANGED <<s_ft, s_srv, s_log>>

(***************************************************************************)
(* The runs of the four scripts.                                           *)
(*                                                                         *)
(* The server is the environment.  To every query it holds some number of  *)
(* matching records, fixed when the query is first asked; it sends them    *)
(* page by page, and what a record holds is seen when it arrives.  The     *)
(* date and time of the run are fixed: today is 2024-01-02, a Tuesday.     *)
(***************************************************************************)
MaxSinceDays == 1    \* largest --since-days argument
MaxChunkArg == 2     \* largest --chunk-days argument of a run
MaxRecords == 2      \* records the server holds over all queries of a run
MaxDataQueries == 1  \* queries of a run that the server holds records for
MaxRetries == 2      \* 403 answers in a row that a run is followed through
CommitPagesDefault == 2   \* stands for max_pages=100, the default of fetch_commits

Today == Ymd2Ord(2024, 1, 2)

Ta == <<2023, 12, 31, 23, 59, 59>>
Tb == <<2024, 1, 1, 0, 0, 0>>
BadTs == <<2024, 1, 1>>           \* a text that is not in the wire format
TsValues == {<<>>, Ta, Tb, BadTs}

\* the authors of the commits the server sends: login and commit email, ""
\* where the record has none
Authors ==
    {[login |-> "alice", email |-> "bob@x"],
     [login |-> "", email |-> "alice"],
     [login |-> "app[bot]", email |-> ""],
     [login |-> "", email |-> ""]}
\* login.endswith("[bot]")
EndsWithBot(login) == login \in {"app[bot]"}

\* label texts, character by character
LabelA == <<"A", " ", "b">>
LabelB == <<"a", "-", "b">>
LabelDefault == <<"e">>              \* --enhancement-label
LabelLists == {<<>>, <<LabelA, LabelB>>}

Scripts == {"prs", "trends", "contrib", "major"}

ArgsOf(scr) ==
    [since_days : (0 - 1)..MaxSinceDays,
     until : IF scr \in {"prs", "contrib"} THEN {<<>>, <<2024, 1, 1>>} ELSE {<<>>},
     chunk_days : IF scr \in {"prs", "trends"} THEN 1..MaxChunkArg ELSE {1},
     max_pages : IF scr \in {"prs", "trends"} THEN 1..MaxPagesArg ELSE {1},
     metric : IF scr = "prs" THEN {"opened", "closed", "merged"} ELSE {"opened"},
     bucket : IF scr = "prs" THEN {"daily", "weekly", "monthly"} ELSE {"weekly"},
     labels : IF scr = "trends" THEN LabelLists ELSE {<<>>},
     exclude_bots : IF scr = "contrib" THEN BOOLEAN ELSE {FALSE},
     token : IF scr = "major" THEN BOOLEAN ELSE {TRUE}]

\* ---- slugify_label
IsAlnum(ch) == ch \in {"a", "b", "e", "A"}
Lower(ch) == IF ch = "A" THEN "a" ELSE ch

RECURSIVE LStrip(_)
LStrip(t) == IF t # <<>> /\ Head(t) = "-" THEN LStrip(Tail(t)) ELSE t

RECURSIVE RStrip(_)
RStrip(t) ==
    IF t # <<>> /\ t[Len(t)] = "-" THEN RStrip(SubSeq(t, 1, Len(t) - 1)) ELSE t

slugify_label(label) ==
    RStrip(LStrip([i \in 1..Len(label) |->
                      IF IsAlnum(label[i]) THEN Lower(label[i]) ELSE "-"]))

\* ---- the sections of main, in program order
Sec(kind, which, label, fn, chunked) ==
    [kind |-> kind, which |-> which, label |-> label, fn |-> fn, chunked |-> chunked]

RECURSIVE LabelSections(_)
LabelSections(labels) ==
    IF labels = <<>> THEN <<>>
    ELSE <<Sec("labeled", "opened", Head(labels), "search_items", TRUE),
           Sec("labeled", "closed", Head(labels), "search_items", TRUE)>>
         \o LabelSections(Tail(labels))

Sections(scr, a) ==
    CASE scr = "prs" -> <<Sec("prs", a.metric, <<>>, "fetch_search", TRUE)>>
      [] scr = "contrib" -> <<Sec("contrib", "", <<>>, "fetch_commits", FALSE)>>
      [] scr = "major" ->
            <<Sec("major", "opened", <<>>, "search_label", FALSE),
              Sec("major", "closed", <<>>, "search_label", FALSE)>>
      [] scr = "trends" ->
            <<Sec("pr", "opened", <<>>, "search_items", TRUE),
              Sec("pr", "closed", <<>>, "search_items", TRUE),
              Sec("pr", "merged", <<>>, "search_items", TRUE),
              Sec("issue", "opened", <<>>, "search_items", TRUE),
              Sec("issue", "closed", <<>>, "search_items", TRUE)>>
            \o LabelSections(IF a.labels = <<>> THEN <<LabelDefault>> ELSE a.labels)
            \o <<Sec("commits", "", <<>>, "list_commits", FALSE),
                 Sec("releases", "", <<>>, "list_releases", FALSE)>>

\* ---- what a record the server sends can hold
SearchItem(which, t) ==
    [created_at |-> IF which = "opened" THEN t ELSE Ta,
     closed_at |-> IF which = "closed" THEN t
                   ELSE IF which = "merged" THEN Tb ELSE <<>>,
     merged_at |-> IF which = "merged" THEN t ELSE <<>>,
     pr_merged_at |-> <<>>,
     number |-> 1]

ItemValues(sc) ==
    CASE sc.kind = "prs" ->
            IF sc.which = "merged" THEN {SearchItem("merged", <<>>)}
            ELSE {SearchItem(sc.which, t) : t \in TsValues}
      [] sc.kind \in {"pr", "issue", "labeled", "major"} ->
            {SearchItem(sc.which, t) : t \in TsValues}
      [] sc.kind \in {"contrib", "commits"} ->
            {[date |-> t, login |-> w.login, email |-> w.email] :
                t \in TsValues, w \in Authors}
      [] sc.kind = "releases" ->
            [published_at : TsValues, created_at : {Tb}]

\* the pages the server can send: n records
Batches(sc, n) == [1..n -> ItemValues(sc)]

\* ---- aggregation tables: sequences of <<key, value>> in insertion order
HasKey(tbl, key) == \E i \in 1..Len(tbl) : tbl[i][1] = key

\* counts[key] = 1 for a key the table already has
Incr_reset(tbl, key) ==
    IF HasKey(tbl, key)
    THEN [i \in 1..Len(tbl) |->
            IF tbl[i][1] = key THEN <<key, 1>> ELSE tbl[i]]
    ELSE Append(tbl, <<key, 1>>)

\* a count that begins at 0: the first record of a key only makes the key
Incr_from_zero(tbl, key) ==
    IF HasKey(tbl, key)
    THEN [i \in 1..Len(tbl) |->
            IF tbl[i][1] = key THEN <<key, tbl[i][2] + 1>> ELSE tbl[i]]
    ELSE Append(tbl, <<key, 0>>)

\* counts[key] += 1
Incr(tbl, key) ==
    IF HasKey(tbl, key)
    THEN [i \in 1..Len(tbl) |->
            IF tbl[i][1] = key THEN <<key, tbl[i][2] + 1>> ELSE tbl[i]]
    ELSE Append(tbl, <<key, 1>>)

\* an add that leaves out an identity some bucket already holds
AddIdent_seen(tbl, key, ident) ==
    IF \E i \in 1..Len(tbl) : ident \in tbl[i][2] THEN tbl
    ELSE IF HasKey(tbl, key)
    THEN [i \in 1..Len(tbl) |->
            IF tbl[i][1] = key THEN <<key, tbl[i][2] \cup {ident}>> ELSE tbl[i]]
    ELSE Append(tbl, <<key, {ident}>>)

\* an add to a list: buckets[key].append(ident)
AddIdent_append(tbl, key, ident) ==
    IF HasKey(tbl, key)
    THEN [i \in 1..Len(tbl) |->
            IF tbl[i][1] = key
            THEN <<key, tbl[i][2] \cup {<<ident, Cardinality(tbl[i][2])>>}>>
            ELSE tbl[i]]
    ELSE Append(tbl, <<key, {<<ident, 0>>}>>)

\* buckets[key].add(ident)
AddIdent(tbl, key, ident) ==
    IF HasKey(tbl, key)
    THEN [i \in 1..Len(tbl) |->
            IF tbl[i][1] = key THEN <<key, tbl[i][2] \cup {ident}>> ELSE tbl[i]]
    ELSE Append(tbl, <<key, {ident}>>)

\* {k: len(v) for k, v in sets.items()}
Cardinalities(tbl) ==
    [i \in 1..Len(tbl) |-> <<tbl[i][1], Cardinality(tbl[i][2])>>]

\* ---- sorted(counter.items()): keys are texts ("text") or dates ("date")
KeyLess(kind, a, b) == IF kind = "text" THEN TextLess(a, b) ELSE a < b

RECURSIVE InsertRow(_, _, _)
InsertRow(kind, rows, r) ==
    IF rows = <<>> THEN <<r>>
    ELSE IF KeyLess(kind, r[1], Head(rows)[1]) THEN <<r>> \o rows
    ELSE <<Head(rows)>> \o InsertRow(kind, Tail(rows), r)

RECURSIVE Sorted(_, _)
Sorted(kind, rows) ==
    IF rows = <<>> THEN <<>>
    ELSE InsertRow(kind, Sorted(kind, SubSeq(rows, 1, Len(rows) - 1)), rows[Len(rows)])

\* ---- the writers: the rows after the header, as written
\* github_prs_to_csv.main, contributors_weekly.main: w.writerows(rows)
WriteRows(path, rows) == [path |-> path, rows |-> rows]

\* a write_csv that writes the counter in the order of its items
write_csv_unsorted(path, counter) ==
    LET rows == counter
    IN  [path |-> path,
         rows |-> [i \in 1..Len(rows) |-> <<iso_label(rows[i][1]), rows[i][2]>>]]

\* write_csv of github_weekly_trends and of major_decision_weekly
write_csv(path, counter) ==
    LET rows == Sorted("date", counter)
    IN  [path |-> path,
         rows |-> [i \in 1..Len(rows) |-> <<iso_label(rows[i][1]), rows[i][2]>>]]

\* ---- the loops over the records fetched
\* the timestamp a search item is counted by
TsOfItem(sc, it) ==
    IF sc.which = "opened" THEN it.created_at
    ELSE IF sc.which = "closed" THEN it.closed_at
    ELSE IF it.merged_at # <<>> THEN it.merged_at
    ELSE IF it.pr_merged_at # <<>> THEN it.pr_merged_at
    ELSE it.closed_at

\* key = bucket_key(dt, a.bucket) / key = monday_bucket(dt)
KeyOfDt(sc, a, dt) ==
    IF sc.kind = "prs"
    THEN bucket_key(dt, a.bucket)
    ELSE IF sc.kind = "major" THEN monday_bucket_major(dt)
    ELSE monday_bucket(dt)

\* one pass of "if not ts: continue; dt = parse(ts); counts[key] += 1";
\* ok is FALSE when strptime raised ValueError
CountTs(sc, a, ts, tbl) ==
    IF ts = <<>> THEN [table |-> tbl, ok |-> TRUE]
    ELSE IF ~ParsesIsoZ(ts) THEN [table |-> tbl, ok |-> FALSE]
    ELSE [table |-> Incr(tbl, KeyOfDt(sc, a, parse_iso_z(ts))), ok |-> TRUE]

RECURSIVE CountItems(_, _, _, _)
CountItems(sc, a, items, tbl) ==
    IF items = <<>> THEN [table |-> tbl, ok |-> TRUE]
    ELSE LET r == CountTs(sc, a, TsOfItem(sc, Head(items)), tbl)
         IN  IF r.ok THEN CountItems(sc, a, Tail(items), r.table) ELSE r

\* a loop where a bot's commit falls back to its email
RECURSIVE CountContributors_bot_email(_, _, _)
CountContributors_bot_email(a, commits, buckets) ==
    IF commits = <<>> THEN buckets
    ELSE LET c == Head(commits)
             rest == Tail(commits)
             ident == IF c.login # "" /\ ~(a.exclude_bots /\ EndsWithBot(c.login))
                      THEN c.login ELSE c.email
         IN  IF c.date = <<>> \/ ~ParsesIsoZ(c.date)
             THEN CountContributors_bot_email(a, rest, buckets)
             ELSE IF ident = ""
             THEN CountContributors_bot_email(a, rest, buckets)
             ELSE CountContributors_bot_email(a, rest,
                    AddIdent(buckets, iso_z(monday_bucket_contrib(parse_iso_z(c.date))),
                             ident))

\* a loop that prefers the email to the login: ident = email or login
RECURSIVE CountContributors_email_first(_, _, _)
CountContributors_email_first(a, commits, buckets) ==
    IF commits = <<>> THEN buckets
    ELSE LET c == Head(commits)
             rest == Tail(commits)
             ident == IF c.email # "" THEN c.email ELSE c.login
         IN  IF c.date = <<>> \/ ~ParsesIsoZ(c.date)
             THEN CountContributors_email_first(a, rest, buckets)
             ELSE IF ident = ""
             THEN CountContributors_email_first(a, rest, buckets)
             ELSE IF a.exclude_bots /\ EndsWithBot(c.login)
             THEN CountContributors_email_first(a, rest, buckets)
             ELSE CountContributors_email_first(a, rest,
                    AddIdent(buckets, iso_z(monday_bucket_contrib(parse_iso_z(c.date))),
                             ident))

\* contributors_weekly.main, the loop over the commits
RECURSIVE CountContributors(_, _, _)
CountContributors(a, commits, buckets) ==
    IF commits = <<>> THEN buckets
    ELSE LET c == Head(commits)
             rest == Tail(commits)
             ident == IF c.login # "" THEN c.login ELSE c.email
         IN  IF c.date = <<>> \/ ~ParsesIsoZ(c.date)
             THEN CountContributors(a, rest, buckets)
             ELSE IF ident = ""
             THEN CountContributors(a, rest, buckets)
             ELSE IF a.exclude_bots /\ EndsWithBot(c.login)
             THEN CountContributors(a, rest, buckets)
             ELSE CountContributors(a, rest,
                    AddIdent(buckets, iso_z(monday_bucket_contrib(parse_iso_z(c.date))),
                             ident))

\* a loop over the commits that leaves a commit without login and email out
\* of the contributor sets
RECURSIVE CountCommits_skip_unknown(_, _, _, _)
CountCommits_skip_unknown(w, commits, commits_weekly, sets) ==
    IF commits = <<>>
    THEN [table |-> commits_weekly, ctable |-> sets, ok |-> TRUE]
    ELSE LET c == Head(commits)
             rest == Tail(commits)
         IN  IF c.date = <<>>
             THEN CountCommits_skip_unknown(w, rest, commits_weekly, sets)
             ELSE IF ~ParsesIsoZ(c.date)
             THEN [table |-> commits_weekly, ctable |-> sets, ok |-> FALSE]
             ELSE LET dt == parse_iso_z(c.date)
                      wk == monday_bucket(dt)
                      ident == IF c.login # "" THEN <<"login", c.login>>
                               ELSE <<"email", c.email>>
                  IN  IF ~(w[1] <= dt.ord /\ dt.ord <= w[2])
                      THEN CountCommits_skip_unknown(w, rest, commits_weekly, sets)
                      ELSE IF c.login = "" /\ c.email = ""
                      THEN CountCommits_skip_unknown(w, rest,
                                                     Incr(commits_weekly, wk), sets)
                      ELSE CountCommits_skip_unknown(w, rest,
                                                     Incr(commits_weekly, wk),
                                                     AddIdent(sets, wk, ident))

\* a loop over the commits that does not look at the window
RECURSIVE CountCommits_no_window(_, _, _, _)
CountCommits_no_window(w, commits, commits_weekly, sets) ==
    IF commits = <<>>
    THEN [table |-> commits_weekly, ctable |-> sets, ok |-> TRUE]
    ELSE LET c == Head(commits)
             rest == Tail(commits)
         IN  IF c.date = <<>>
             THEN CountCommits_no_window(w, rest, commits_weekly, sets)
             ELSE IF ~ParsesIsoZ(c.date)
             THEN [table |-> commits_weekly, ctable |-> sets, ok |-> FALSE]
             ELSE LET dt == parse_iso_z(c.date)
                      wk == monday_bucket(dt)
                      ident == IF c.login # "" THEN <<"login", c.login>>
                               ELSE IF c.email # "" THEN <<"email", c.email>>
                               ELSE <<"unknown">>
                  IN  CountCommits_no_window(w, rest, Incr(commits_weekly, wk),
                                             AddIdent(sets, wk, ident))

\* github_weekly_trends.main, the loop over the commits
RECURSIVE CountCommits(_, _, _, _)
CountCommits(w, commits, commits_weekly, sets) ==
    IF commits = <<>>
    THEN [table |-> commits_weekly, ctable |-> sets, ok |-> TRUE]
    ELSE LET c == Head(commits)
             rest == Tail(commits)
         IN  IF c.date = <<>> THEN CountCommits(w, rest, commits_weekly, sets)
             ELSE IF ~ParsesIsoZ(c.date)
             THEN [table |-> commits_weekly, ctable |-> sets, ok |-> FALSE]
             ELSE LET dt == parse_iso_z(c.date)
                      wk == monday_bucket(dt)
                      ident == IF c.login # "" THEN <<"login", c.login>>
                               ELSE IF c.email # "" THEN <<"email", c.email>>
                               ELSE <<"unknown">>
                  IN  IF ~(w[1] <= dt.ord /\ dt.ord <= w[2])
                      THEN CountCommits(w, rest, commits_weekly, sets)
                      ELSE CountCommits(w, rest, Incr(commits_weekly, wk),
                                        AddIdent(sets, wk, ident))

\* github_weekly_trends.list_releases, the filter to the window, and
\* main's monthly count of what it keeps
RECURSIVE CountReleases(_, _, _)
CountReleases(w, rels, releases_monthly) ==
    IF rels = <<>> THEN [table |-> releases_monthly, ok |-> TRUE]
    ELSE LET rel == Head(rels)
             ts == IF rel.published_at # <<>> THEN rel.published_at ELSE rel.created_at
         IN  IF ts = <<>> THEN CountReleases(w, Tail(rels), releases_monthly)
             ELSE IF ~ParsesIsoZ(ts) THEN [table |-> releases_monthly, ok |-> FALSE]
             ELSE LET dt == parse_iso_z(ts)
                  IN  IF w[1] <= dt.ord /\ dt.ord <= w[2]
                      THEN CountReleases(w, Tail(rels),
                                         Incr(releases_monthly, month_bucket(dt)))
                      ELSE CountReleases(w, Tail(rels), releases_monthly)

(***************************************************************************)
(* Spec: one run of one script, request by request.                        *)
(***************************************************************************)
NoFetch == FetchInit("fetch_search", 0)

IdleRun ==
    /\ script = "prs"
    /\ args = <<>>
    /\ pc = "idle"
    /\ err = ""
    /\ win = <<0, 0>>
    /\ sec = 1
    /\ cur = 0
    /\ did = FALSE
    /\ ft = NoFetch
    /\ q_left = 0
    /\ budget = 0
    /\ qbudget = 0
    /\ table = <<>>
    /\ ctable = <<>>
    /\ pending = <<>>
    /\ out = <<>>
    /\ net = 0
    /\ last = 0
    /\ retries = 0

InitRun ==
    /\ script \in Scripts
    /\ args \in ArgsOf(script)
    /\ pc = "start"
    /\ err = ""
    /\ win = <<0, 0>>
    /\ sec = 1
    /\ cur = 0
    /\ did = FALSE
    /\ ft = NoFetch
    /\ q_left = 0
    /\ budget = MaxRecords
    /\ qbudget = MaxDataQueries
    /\ table = <<>>
    /\ ctable = <<>>
    /\ pending = <<>>
    /\ out = <<>>
    /\ net = 0
    /\ last = 0
    /\ retries = 0

TheSections == Sections(script, args)
TheSection == TheSections[sec]

\* ---- the window
\* github_prs_to_csv.calc_range and the same lines of contributors_weekly.main:
\* <<start, end>>, or <<>> when start > end raises SystemExit
calc_range(a) ==
    LET today == Today
        start == today - a.since_days
        end == IF a.until # <<>> THEN DateOfText(a.until) ELSE today
    IN  IF start > end THEN <<>> ELSE <<start, end>>

\* github_weekly_trends.compute_window, and the same lines of
\* major_decision_weekly.main
compute_window(since_days) ==
    LET end == Today
        start == end - since_days
    IN  <<start, end>>

Fail(why) ==
    /\ pc' = "failed"
    /\ err' = why

\* main up to the first loop: the arguments, the token, the window
Start ==
    /\ pc = "start"
    /\ IF script \in {"prs", "contrib"}
       THEN LET w == calc_range(args)
            IN  IF w = <<>>
                THEN Fail("InvalidRange") /\ UNCHANGED <<win, cur>>
                ELSE pc' = "chunk" /\ win' = w /\ cur' = w[1] /\ UNCHANGED err
       ELSE IF script = "major" /\ ~args.token
       THEN Fail("NoToken") /\ UNCHANGED <<win, cur>>
       ELSE LET w == compute_window(args.since_days)
            IN  pc' = "chunk" /\ win' = w /\ cur' = w[1] /\ UNCHANGED err
    /\ UNCHANGED <<script, args, sec, did, ft, q_left, budget, qbudget, table,
                   ctable, pending, out, net, last, retries>>

\* ---- the top of a section's loop
\* whether the section has another query to make
MoreToFetch ==
    IF TheSection.chunked THEN cur <= win[2] ELSE ~did

MaxPagesOf(sc) ==
    IF sc.fn = "fetch_commits" THEN CommitPagesDefault ELSE args.max_pages

\* the next chunk is taken and its query is built: the fetch begins
BeginFetch ==
    /\ pc = "chunk"
    /\ MoreToFetch
    /\ ft' = FetchInit(TheSection.fn, MaxPagesOf(TheSection))
    /\ \E n \in 0..(IF qbudget > 0 THEN budget ELSE 0) :
        /\ q_left' = n
        /\ budget' = budget - n
        /\ qbudget' = IF n > 0 THEN qbudget - 1 ELSE qbudget
    /\ pc' = "fetch"
    /\ retries' = 0
    /\ UNCHANGED <<script, args, err, win, sec, cur, did, table, ctable,
                   pending, out, net, last>>

\* the paths of the files of a section
PathsOf(sc) ==
    CASE sc.kind \in {"prs", "contrib"} -> <<<<"out">>>>
      [] sc.kind = "major" -> <<<<"label-major-decision-pending", sc.which>>>>
      [] sc.kind \in {"pr", "issue"} -> <<<<sc.kind, sc.which>>>>
      [] sc.kind = "labeled" -> <<<<"label", slugify_label(sc.label), sc.which>>>>
      [] sc.kind = "commits" -> <<<<"commits">>, <<"contributors">>>>
      [] sc.kind = "releases" -> <<<<"releases">>>>

\* a section that writes only the first of its files
FilesOf_first(sc, tbl, ctbl) ==
    CASE sc.kind = "prs" -> <<WriteRows(PathsOf(sc)[1], Sorted("text", tbl))>>
      [] sc.kind = "contrib" ->
            <<WriteRows(PathsOf(sc)[1], Sorted("text", Cardinalities(tbl)))>>
      [] OTHER -> <<write_csv(PathsOf(sc)[1], tbl)>>

\* a section that writes its files only when it has counted something
FilesOf_nonempty(sc, tbl, ctbl) ==
    IF tbl = <<>> THEN <<>>
    ELSE CASE sc.kind = "prs" -> <<WriteRows(PathsOf(sc)[1], Sorted("text", tbl))>>
           [] sc.kind = "contrib" ->
                 <<WriteRows(PathsOf(sc)[1], Sorted("text", Cardinalities(tbl)))>>
           [] sc.kind = "commits" ->
                 <<write_csv(PathsOf(sc)[1], tbl),
                   write_csv(PathsOf(sc)[2], Cardinalities(ctbl))>>
           [] OTHER -> <<write_csv(PathsOf(sc)[1], tbl)>>

\* the files a section writes when its loop is over
FilesOf(sc, tbl, ctbl) ==
    CASE sc.kind = "prs" -> <<WriteRows(PathsOf(sc)[1], Sorted("text", tbl))>>
      [] sc.kind = "contrib" ->
            <<WriteRows(PathsOf(sc)[1], Sorted("text", Cardinalities(tbl)))>>
      [] sc.kind = "commits" ->
            <<write_csv(PathsOf(sc)[1], tbl),
              write_csv(PathsOf(sc)[2], Cardinalities(ctbl))>>
      [] OTHER -> <<write_csv(PathsOf(sc)[1], tbl)>>

\* the section's loop is over: its files are written, the next section begins
EndSection ==
    /\ pc = "chunk"
    /\ ~MoreToFetch
    /\ out' = out \o FilesOf(TheSection, table, ctable)
    /\ IF sec = Len(TheSections)
       THEN pc' = "done" /\ UNCHANGED <<sec, cur, did>>
       ELSE pc' = "chunk" /\ sec' = sec + 1 /\ cur' = win[1] /\ did' = FALSE
    /\ table' = <<>>
    /\ ctable' = <<>>
    /\ UNCHANGED <<script, args, err, win, ft, q_left, budget, qbudget, pending,
                   net, last, retries>>

\* ---- after a fetch has returned: the loop over its items
\* [pc, err, table, ctable, pending] after the items are processed, for the
\* section sc of a run with arguments a, window w and tables tbl and ctbl
ItemsLoop(sc, a, w, items, tbl, ctbl) ==
    CASE sc.kind = "prs" /\ sc.which = "merged" ->
            [pc |-> IF items = <<>> THEN "chunk" ELSE "pull", err |-> "",
             table |-> tbl, ctable |-> ctbl, pending |-> items]
      [] sc.kind = "contrib" ->
            [pc |-> "chunk", err |-> "",
             table |-> CountContributors(a, items, tbl),
             ctable |-> ctbl, pending |-> <<>>]
      [] sc.kind = "commits" ->
            LET r == CountCommits(w, items, tbl, ctbl)
            IN  [pc |-> IF r.ok THEN "chunk" ELSE "failed",
                 err |-> IF r.ok THEN "" ELSE "ValueError",
                 table |-> r.table, ctable |-> r.ctable, pending |-> <<>>]
      [] sc.kind = "releases" ->
            LET r == CountReleases(w, items, tbl)
            IN  [pc |-> IF r.ok THEN "chunk" ELSE "failed",
                 err |-> IF r.ok THEN "" ELSE "ValueError",
                 table |-> r.table, ctable |-> ctbl, pending |-> <<>>]
      [] OTHER ->
            LET r == CountItems(sc, a, items, tbl)
            IN  [pc |-> IF r.ok THEN "chunk" ELSE "failed",
                 err |-> IF r.ok THEN "" ELSE "ValueError",
                 table |-> r.table, ctable |-> ctbl, pending |-> <<>>]

AfterFetch(sc, items) == ItemsLoop(sc, args, win, items, table, ctable)

\* the cursor after the chunk that was just queried
NextCur(sc) ==
    IF sc.chunked THEN ChunkEnd(cur, win[2], args.chunk_days) + 1 ELSE cur

\* one request of the fetch in progress, the server's answer, and what the
\* script does with it up to its next request
Request ==
    /\ pc = "fetch"
    /\ ft.st = "req"
    /\ \E status \in Statuses :
        /\ status = 403 => retries < MaxRetries
        /\ \E batch \in (IF status = 200
                         THEN Batches(TheSection, Min(PerPage, q_left))
                         ELSE {<<>>}) :
            LET f == FetchStep(ft, status, batch, status = 200 /\ Len(batch) < q_left)
                r == AfterFetch(TheSection, f.items)
            IN  /\ ft' = f
                /\ last' = status
                /\ net' = net + 1
                /\ q_left' = q_left - Len(batch)
                /\ retries' = IF status = 403 THEN retries + 1 ELSE 0
                /\ IF f.st = "abort"
                   THEN /\ Fail("HTTP")
                        /\ UNCHANGED <<table, ctable, pending, cur, did>>
                   ELSE IF f.st = "req"
                   THEN UNCHANGED <<pc, err, table, ctable, pending, cur, did>>
                   ELSE /\ pc' = r.pc
                        /\ err' = r.err
                        /\ table' = r.table
                        /\ ctable' = r.ctable
                        /\ pending' = r.pending
                        /\ cur' = IF r.pc = "chunk" THEN NextCur(TheSection) ELSE cur
                        /\ did' = TRUE
    /\ UNCHANGED <<script, args, win, sec, budget, qbudget, out>>

\* github_prs_to_csv, merged: fetch_pull_merged_at for the next item, and the
\* rest of the loop body for it
RequestPull ==
    /\ pc = "pull"
    /\ pending # <<>>
    /\ \E status \in Statuses, merged_at \in TsValues :
        /\ status # 200 => merged_at = <<>>
        /\ last' = status
        /\ net' = net + 1
        /\ IF status # 200
           THEN Fail("HTTP") /\ UNCHANGED <<table, pending, cur>>
           ELSE LET r == CountTs(TheSection, args, merged_at, table)
                IN  IF ~r.ok
                    THEN Fail("ValueError") /\ UNCHANGED <<table, pending, cur>>
                    ELSE /\ table' = r.table
                         /\ pending' = Tail(pending)
                         /\ pc' = IF Tail(pending) = <<>> THEN "chunk" ELSE "pull"
                         /\ cur' = IF Tail(pending) = <<>>
                                   THEN NextCur(TheSection) ELSE cur
                         /\ UNCHANGED err
    /\ UNCHANGED <<script, args, win, sec, did, ft, q_left, budget, qbudget,
                   ctable, out, retries>>

(***************************************************************************)
(* SpecAgg: the aggregation loop of one section of main, fed with the      *)
(* records of one fetch after the other (one fetch per chunk), and the     *)
(* writing of its files when the loop is over.                             *)
(***************************************************************************)
MaxItems == 3        \* most search items fed to a counting loop
MaxCommits == 2      \* most commits fed to a loop over commits
MaxBatch == 2        \* most records one fetch returns

T1 == <<2024, 1, 1, 10, 0, 0>>
T2 == <<2024, 1, 2, 9, 0, 0>>
T3 == <<2024, 1, 8, 10, 0, 0>>

\* the timestamps of the search items and of the commits
AggItemTs == {<<>>, BadTs, T1, T2, T3}
AggCommitTs == {<<>>, T1, T3}

\* login and commit email of the commits, "" where the record has none
AggAuthors ==
    {[login |-> "alice", email |-> "alice"],
     [login |-> "alice", email |-> "bob@x"],
     [login |-> "", email |-> "alice"],
     [login |-> "", email |-> "bob@x"],
     [login |-> "", email |-> ""],
     [login |-> "app[bot]", email |-> "bob@x"]}

\* the loops that count items and the loops over commits
CountSecs ==
    {Sec("prs", "opened", <<>>, "fetch_search", TRUE),
     Sec("pr", "merged", <<>>, "search_items", TRUE),
     Sec("major", "closed", <<>>, "search_label", FALSE)}
UniqueSecs ==
    {Sec("contrib", "", <<>>, "fetch_commits", FALSE),
     Sec("commits", "", <<>>, "list_commits", FALSE)}

\* the windows of the loop over commits of github_weekly_trends
AggWindows ==
    {<<Ymd2Ord(2024, 1, 1), Ymd2Ord(2024, 1, 21)>>,
     <<Ymd2Ord(2024, 1, 2), Ymd2Ord(2024, 1, 21)>>}

\* the records a fetch of the section can return
AggRecords(sc) ==
    IF sc \in UniqueSecs
    THEN {[date |-> t, login |-> w.login, email |-> w.email] :
            t \in AggCommitTs, w \in AggAuthors}
    ELSE {SearchItem(sc.which, t) : t \in AggItemTs}

MaxFed(sc) == IF sc \in UniqueSecs THEN MaxCommits ELSE MaxItems

IdleAgg ==
    /\ a_sc = Sec("prs", "opened", <<>>, "fetch_search", TRUE)
    /\ a_args = <<>>
    /\ a_win = <<0, 0>>
    /\ a_fed = <<>>
    /\ a_cuts = <<>>
    /\ a_table = <<>>
    /\ a_ctable = <<>>
    /\ a_out = <<>>
    /\ a_pc = "idle"

InitAgg ==
    /\ a_sc \in CountSecs \cup UniqueSecs
    /\ a_args \in [bucket : IF a_sc.kind = "prs"
                            THEN {"daily", "weekly", "monthly"} ELSE {"weekly"},
                   exclude_bots : IF a_sc.kind = "contrib" THEN BOOLEAN ELSE {FALSE}]
    /\ a_win \in IF a_sc.kind = "commits"
                 THEN AggWindows ELSE {<<Ymd2Ord(2024, 1, 1), Ymd2Ord(2024, 1, 21)>>}
    /\ a_fed = <<>>
    /\ a_cuts = <<>>
    /\ a_table = <<>>
    /\ a_ctable = <<>>
    /\ a_out = <<>>
    /\ a_pc = "loop"

\* a fetch returns its items and main loops over them
AggChunk ==
    /\ a_pc = "loop"
    /\ \E n \in 1..MaxBatch :
        /\ Len(a_fed) + n <= MaxFed(a_sc)
        /\ \E batch \in [1..n -> AggRecords(a_sc)] :
            LET r == ItemsLoop(a_sc, a_args, a_win, batch, a_table, a_ctable)
            IN  /\ a_fed' = a_fed \o batch
                /\ a_cuts' = Append(a_cuts, n)
                /\ a_table' = r.table
                /\ a_ctable' = r.ctable
                /\ a_pc' = IF r.pc = "failed" THEN "failed" ELSE "loop"
    /\ UNCHANGED <<a_sc, a_args, a_win, a_out>>

\* the loop is over: the files of the section are written
AggWrite ==
    /\ a_pc = "loop"
    /\ a_out' = FilesOf(a_sc, a_table, a_ctable)
    /\ a_pc' = "done"
    /\ UNCHANGED <<a_sc, a_args, a_win, a_fed, a_cuts, a_table, a_ctable>>

(***************************************************************************)
(* Specifications.                                                         *)
(***************************************************************************)
NextBucket ==
    \/ BucketApply /\ UNCHANGED <<chunkVars, fetchVars, runVars, aggVars>>
    \/ BucketReadBack /\ UNCHANGED <<chunkVars, fetchVars, runVars, aggVars>>

InitSpecBucket == InitBucket /\ IdleChunks /\ IdleFetch /\ IdleRun /\ IdleAgg

SpecBucket == InitSpecBucket /\ [][NextBucket]_vars

NextChunks ==
    \/ ChunkStep /\ UNCHANGED <<bucketVars, fetchVars, runVars, aggVars>>
    \/ ChunkExit /\ UNCHANGED <<bucketVars, fetchVars, runVars, aggVars>>

InitSpecChunks == InitChunks /\ IdleBucket /\ IdleFetch /\ IdleRun /\ IdleAgg

NextFetch ==
    FetchRequest /\ UNCHANGED <<bucketVars, chunkVars, runVars, aggVars>>

InitSpecFetch == InitFetch /\ IdleBucket /\ IdleChunks /\ IdleRun /\ IdleAgg

SpecFetch == InitSpecFetch /\ [][NextFetch]_vars

NextRetry ==
    \/ RetryRequest /\ UNCHANGED <<bucketVars, chunkVars, runVars, aggVars>>
    \/ RetryWake /\ UNCHANGED <<bucketVars, chunkVars, runVars, aggVars>>

InitSpecRetry == InitFetch /\ IdleBucket /\ IdleChunks /\ IdleRun /\ IdleAgg

\* every request is answered (requests.get has a timeout) and every sleep ends
SpecRetry ==
    InitSpecRetry /\ [][NextRetry]_vars
    /\ WF_fetchVars(RetryRequest) /\ WF_fetchVars(RetryWake)

Next ==
    \/ Start /\ UNCHANGED <<bucketVars, chunkVars, fetchVars, aggVars>>
    \/ BeginFetch /\ UNCHANGED <<bucketVars, chunkVars, fetchVars, aggVars>>
    \/ Request /\ UNCHANGED <<bucketVars, chunkVars, fetchVars, aggVars>>
    \/ RequestPull /\ UNCHANGED <<bucketVars, chunkVars, fetchVars, aggVars>>
    \/ EndSection /\ UNCHANGED <<bucketVars, chunkVars, fetchVars, aggVars>>

Init == InitRun /\ IdleBucket /\ IdleChunks /\ IdleFetch /\ IdleAgg

Spec == Init /\ [][Next]_vars

SpecChunks == InitSpecChunks /\ [][NextChunks]_vars

NextAgg ==
    \/ AggChunk /\ UNCHANGED <<bucketVars, chunkVars, fetchVars, runVars>>
    \/ AggWrite /\ UNCHANGED <<bucketVars, chunkVars, fetchVars, runVars>>

InitSpecAgg == InitAgg /\ IdleBucket /\ IdleChunks /\ IdleFetch /\ IdleRun

SpecAgg == InitSpecAgg /\ [][NextAgg]_vars

(***************************************************************************)
(* Properties of the WindowPlanner.                                        *)
(***************************************************************************)
\* the dates of the i-th chunk yielded
ChunkS(i) == IF c_variant = "prs" THEN c_out[i][1] ELSE DateOfText(c_out[i][1])
ChunkE(i) == IF c_variant = "prs" THEN c_out[i][2] ELSE DateOfText(c_out[i][2])

\* C1: for start <= end and chunk_days >= 1 the chunks of daterange_chunks, in
\* the order yielded, partition the window: the first starts at start, the last
\* ends at end, each next one starts the day after the previous one's end, and
\* each covers between 1 and chunk_days days.
C1_ChunksPartition ==
    (c_pc = "done" /\ c_start <= c_end /\ c_chunk_days >= 1) =>
        /\ Len(c_out) >= 1
        /\ ChunkS(1) = c_start
        /\ ChunkE(Len(c_out)) = c_end
        /\ \A i \in 1..Len(c_out) :
            /\ ChunkS(i) <= ChunkE(i)
            /\ ChunkE(i) - ChunkS(i) + 1 <= c_chunk_days
            /\ (i < Len(c_out) => ChunkS(i + 1) = ChunkE(i) + 1)

\* a window cut in three chunks, the last one shorter, over the year boundary
C1_Witness ==
    /\ c_pc = "done"
    /\ c_variant = "trends"
    /\ c_chunk_days = 2
    /\ Len(c_out) = 3
    /\ c_out[1][1][1] = 2023
    /\ c_out[3] = <<<<2024, 1, 2>>, <<2024, 1, 2>>>>

(***************************************************************************)
(* Properties of the TimeBucketer.                                         *)
(***************************************************************************)
\* 2024-01-01 is a Monday (the weekly bucket of the spec's scenario)
AnchorMonday == Ymd2Ord(2024, 1, 1)
IsMonday(ord) == (ord - AnchorMonday) % 7 = 0
WeekIndex(ord) == (ord - AnchorMonday) \div 7

\* the calendar date of a wire timestamp or of a CSV key
DayOf(ts) == Ymd2Ord(ts[1], ts[2], ts[3])

\* C9: bucketing is idempotent for every pipeline and granularity: the key of
\* a timestamp, read back as a timestamp at UTC midnight and bucketed again,
\* is the same key.
C9_BucketIdempotent ==
    b_again # <<>> => b_again[1] = b_key[1]

\* a weekly key that is another day than the timestamp, read back and bucketed
C9_Witness ==
    /\ b_again # <<>>
    /\ b_fn = "prs_weekly"
    /\ DayOf(b_key[1]) # DayOf(b_ts[1])

\* C10: the weekly bucket of a timestamp on day d is a Monday at midnight, not
\* after d and at most 6 days before d; two timestamps have the same weekly
\* bucket exactly when they are in the same Monday-to-Sunday week.
C10_WeeklyBucket ==
    (b_key # <<>> /\ b_fn \in WeeklyFns) =>
        /\ \A i \in 1..2 :
            /\ IsMonday(DayOf(b_key[i]))
            /\ <<b_key[i][4], b_key[i][5], b_key[i][6]>> = <<0, 0, 0>>
            /\ DayOf(b_key[i]) <= DayOf(b_ts[i])
            /\ DayOf(b_ts[i]) - DayOf(b_key[i]) <= 6
        /\ (b_key[1] = b_key[2]) <=> (WeekIndex(DayOf(b_ts[1])) = WeekIndex(DayOf(b_ts[2])))

\* two timestamps of one week, one in each year
C10_Witness ==
    /\ b_key # <<>>
    /\ b_fn = "trends_weekly"
    /\ b_ts[1][1] = 2019
    /\ b_ts[2][1] = 2020
    /\ b_key[1] = b_key[2]
    /\ b_key[1] = <<2019, 12, 30, 0, 0, 0>>

(***************************************************************************)
(* Properties of the PaginatedFetcher.                                     *)
(***************************************************************************)
\* a request was issued in this step, and what it was
Requested == s_log' # s_log
Answer == s_log'[Len(s_log')]

\* C2 as stated: in every fetch a full page is followed by a request for the
\* next page and a short page ends pagination.
C2_Original ==
    [][(Requested /\ Answer.status = 200) =>
        /\ Answer.n = PerPage => (s_ft'.st = "req" /\ s_ft'.page = s_ft.page + 1)
        /\ Answer.n < PerPage => s_ft'.st = "ret"]_vars

\* C2 amended: in the fetchers that ask for page numbers a full page is
\* followed by a request for the next page, unless the page was page number
\* max_pages of a capped fetcher, where pagination ends; a short page ends
\* pagination.  The Link fetchers go on exactly when the answer has a next
\* link (list_commits also ends on an empty page).  After pagination has ended
\* no request is issued.
C2_Pagination ==
    [][/\ (Requested /\ Answer.status = 200 /\ s_ft.fn \in PageFetchers) =>
            LET capped == s_ft.fn \in CappedFetchers /\ s_ft.page = s_ft.maxp
            IN  /\ (Answer.n = PerPage /\ ~capped) =>
                      (s_ft'.st = "req" /\ s_ft'.page = s_ft.page + 1)
                /\ (Answer.n = PerPage /\ capped) => s_ft'.st = "ret"
                /\ Answer.n < PerPage => s_ft'.st = "ret"
       /\ (Requested /\ Answer.status = 200 /\ s_ft.fn \in LinkFetchers) =>
            IF HasNext(s_srv, s_ft.page)
            THEN s_ft'.st = "req" /\ s_ft'.page = s_ft.page + 1
            ELSE s_ft'.st = "ret"
       /\ s_ft.st # "req" => ~Requested]_vars

\* a full first page, a short second page, and the fetch has returned
C2_Witness ==
    /\ s_ft.fn = "fetch_search"
    /\ s_ft.st = "ret"
    /\ Len(s_log) = 2
    /\ s_log[1].n = PerPage /\ s_log[1].page = 1
    /\ s_log[2].n < PerPage /\ s_log[2].page = 2

\* the records a fetch that returns normally returns
Returned ==
    IF s_ft.fn \in CappedFetchers
    THEN SubSeq(s_srv, 1, Min(Len(s_srv), s_ft.maxp * PerPage))
    ELSE s_srv

ErrorAnswer == net' = net + 1 /\ last' \notin {200, 403}

\* C5: when a request of any fetch, on any page, is answered with a
\* non-success status that is not the rate-limit status, the fetch raises
\* (it returns nothing, the records of its earlier pages included), nothing
\* is added to the aggregation tables or to the files, the run has failed
\* with the HTTP error, and a failed run issues no further request.
C5_ErrorAborts ==
    [][/\ ErrorAnswer =>
            /\ pc' = "failed"
            /\ err' = "HTTP"
            /\ pc = "fetch" => ft'.st = "abort"
            /\ table' = table
            /\ ctable' = ctable
            /\ out' = out
       /\ pc = "failed" => net' = net /\ pc' = "failed"]_vars

\* a run has failed on an error answer to a later page of a fetch, with the
\* records of the earlier pages in hand
C5_Witness ==
    /\ pc = "failed"
    /\ err = "HTTP"
    /\ last \notin {200, 403}
    /\ ft.st = "abort"
    /\ ft.page > 1
    /\ ft.items # <<>>

\* C6 as stated: a run that has failed with a remote API error or an invalid
\* range has written no output file.
C6_Original ==
    (pc = "failed" /\ err \in {"HTTP", "InvalidRange"}) => out = <<>>

\* the paths of the files of the sections before section k, in program order
RECURSIVE PathsBefore(_)
PathsBefore(k) ==
    IF k <= 1 THEN <<>> ELSE PathsBefore(k - 1) \o PathsOf(TheSections[k - 1])

\* C6 amended: a run that has failed (on a remote API error, an invalid
\* range, or otherwise) in its section k has written the files of its
\* sections before k, once each and in program order, and no file of section
\* k or of a later section; so a run with one section, which is every run of
\* github_prs_to_csv and of contributors_weekly, has written nothing.
C6_PartialOutput ==
    pc = "failed" =>
        /\ [i \in 1..Len(out) |-> out[i].path] = PathsBefore(sec)
        /\ script \in {"prs", "contrib"} => out = <<>>

\* a run of several sections has failed on a remote API error in a later
\* section, with events of that section counted and files of the earlier
\* sections written
C6_Witness ==
    /\ pc = "failed"
    /\ err = "HTTP"
    /\ sec > 1
    /\ out # <<>>
    /\ table # <<>>

\* the window the caller's input stands for: <<start, end>>
InputWindow ==
    <<Today - args.since_days,
      IF args.until # <<>> THEN DateOfText(args.until) ELSE Today>>

\* C7 as stated: in every script, a run whose input window has start after
\* end fails with the invalid-range error, and no request has been issued.
C7_Original ==
    (pc # "start" /\ InputWindow[1] > InputWindow[2]) =>
        (pc = "failed" /\ err = "InvalidRange" /\ net = 0)

\* the rows of a written file are strictly ascending by their time column
Ascending(rows) ==
    \A j \in 1..(Len(rows) - 1) : TextLess(rows[j][1], rows[j + 1][1])

\* C8: in every file a run has written, the rows after the header are
\* strictly ascending by the time column, so no time key is in two rows.
C8_RowsAscending ==
    \A i \in 1..Len(out) :
        /\ Ascending(out[i].rows)
        /\ \A j, k \in 1..Len(out[i].rows) :
              j # k => out[i].rows[j][1] # out[i].rows[k][1]

\* a file with rows for two time keys has been written
C8_Witness ==
    \E i \in 1..Len(out) : Len(out[i].rows) >= 2

(***************************************************************************)
(* Properties of the aggregation loops.                                    *)
(***************************************************************************)
\* the loop is one over commits
Unique == a_sc \in UniqueSecs

\* the table of identity sets of the loop, and the rows of the contributor
\* file it has written
IdentSets == IF a_sc.kind = "contrib" THEN a_table ELSE a_ctable
ContribRows == IF a_sc.kind = "contrib" THEN a_out[1].rows ELSE a_out[2].rows
CommitRows == a_out[1].rows

\* the commit is dated, and within the window where the loop looks at it
Dated(c) ==
    /\ c.date # <<>>
    /\ ParsesIsoZ(c.date)
    /\ a_sc.kind = "commits" =>
          (a_win[1] <= parse_iso_z(c.date).ord /\ parse_iso_z(c.date).ord <= a_win[2])

\* the commit has neither login nor email
Anonymous(c) == c.login = "" /\ c.email = ""

\* the bot filter is on and the commit is a bot's
Filtered(c) == a_args.exclude_bots /\ EndsWithBot(c.login)

\* the sum of the counts of the rows
RECURSIVE SumRows(_)
SumRows(rows) == IF rows = <<>> THEN 0 ELSE Head(rows)[2] + SumRows(Tail(rows))

\* the set a table holds for a key, empty where it has none
SetAt(tbl, key) ==
    IF HasKey(tbl, key)
    THEN (CHOOSE r \in {tbl[i] : i \in 1..Len(tbl)} : r[1] = key)[2]
    ELSE {}

KeysOf(tbl) == {tbl[i][1] : i \in 1..Len(tbl)}

\* the records the step feeds to the loop
NewRecords == SubSeq(a_fed', Len(a_fed) + 1, Len(a_fed'))

\* C11 as stated: two commits of one week, one identified by its login and
\* one (without login) by its email, give the week a contributor count of 2.
C11_Original ==
    (/\ a_pc = "done"
     /\ Unique
     /\ Len(a_fed) = 2
     /\ \E i, j \in 1..2 :
          /\ i # j
          /\ a_fed[i].login # ""
          /\ a_fed[j].login = "" /\ a_fed[j].email # ""
          /\ a_fed[i].date = a_fed[j].date
          /\ Dated(a_fed[i]) /\ ~Filtered(a_fed[i]))
    => (Len(ContribRows) = 1 /\ ContribRows[1][2] = 2)

C13_Original ==
    ~(pc = "failed" /\ err = "ValueError")

\* the files the section writes when its loop has been fed the records fed,
\* all in one fetch
Finalized(fed) ==
    LET r == ItemsLoop(a_sc, a_args, a_win, fed, <<>>, <<>>)
    IN  FilesOf(a_sc, r.table, r.ctable)

\* the orders a sequence of n records can be fed in
Orders(n) == {f \in [1..n -> 1..n] : \A i, j \in 1..n : f[i] = f[j] => i = j}

\* C14: the files a loop over commits writes after the commits were fed to
\* it, chunk by chunk, are those written for the same commits fed in any
\* other order: every week has the same contributor count in every order.
C14_OrderIndependent ==
    (Unique /\ a_pc = "done") =>
        \A f \in Orders(Len(a_fed)) :
            Finalized([i \in 1..Len(a_fed) |-> a_fed[f[i]]]) = a_out

\* two contributors, the one of the later week fed first, and two rows written
C14_Witness ==
    /\ Unique
    /\ a_pc = "done"
    /\ Len(a_fed) = 2
    /\ a_fed[1].date = T3 /\ a_fed[2].date = T1
    /\ a_fed[1].login = "alice" /\ a_fed[2].login = "" /\ a_fed[2].email = "bob@x"
    /\ Len(ContribRows) = 2

\* the weeks of the commits fed that the loop looks at
WeeksFed ==
    {monday_bucket(parse_iso_z(a_fed[i].date)) :
        i \in {j \in 1..Len(a_fed) : Dated(a_fed[j])}}

\* C15: when every commit fed has the same author, so that each commit after
\* the first of a week adds an identity its bucket already holds, every week
\* with a commit has a contributor count of 1, however many commits it has.
C15_AddIdempotent ==
    (/\ Unique
     /\ a_pc = "done"
     /\ \A i, j \in 1..Len(a_fed) :
           a_fed[i].login = a_fed[j].login /\ a_fed[i].email = a_fed[j].email
     /\ \A i \in 1..Len(a_fed) :
           ~Filtered(a_fed[i])
           /\ (a_sc.kind = "contrib" => ~Anonymous(a_fed[i])))
    => /\ Len(ContribRows) = Cardinality(WeeksFed)
       /\ \A r \in 1..Len(ContribRows) : ContribRows[r][2] = 1

\* one author with two commits in one week: one row, count 1
C15_Witness ==
    /\ Unique
    /\ a_pc = "done"
    /\ Len(a_fed) = 2
    /\ a_fed[1] = a_fed[2]
    /\ a_fed[1].login = "alice"
    /\ a_fed[1].date = T1
    /\ a_cuts = <<1, 1>>
    /\ Len(ContribRows) = 1 /\ ContribRows[1][2] = 1

\* the page requests of the fetch that the server has answered with success
Successful == {i \in 1..Len(s_log) : s_log[i].status = 200}

\* C16 as stated: no fetch issues more than max_pages successful page
\* requests for one query.
C16_Original ==
    Cardinality(Successful) <= s_ft.maxp

\* the last answer of the server
LastStatus == IF s_log = <<>> THEN 0 ELSE s_log[Len(s_log)].status

\* C17 as stated: the fetch terminates after finitely many attempts, also
\* when the server answers the same request with the rate-limit status forever.
C17_Original ==
    <>(s_ft.st # "req")

\* C17 amended: search_label retries the request for as long as the server
\* answers 403, without bound: only an answer other than 403 makes it leave
\* the loop, and a 403 answer leaves it asking for the same page.  It
\* terminates once the server no longer answers 403 forever.  The other
\* fetchers never retry and terminate whatever the server answers.
C17_RetryUnbounded ==
    /\ [][(s_ft.fn = "search_label" /\ s_ft.st = "req" /\ ~s_wait) =>
            IF LastStatus' = 403
            THEN s_ft' = s_ft /\ s_wait'
            ELSE ~s_wait']_vars
    /\ [][(s_ft.fn = "search_label" /\ s_ft'.st # "req" /\ s_ft.st = "req")
            => LastStatus' # 403]_vars
    /\ ([]<>(LastStatus # 403)) => <>(s_ft.st # "req")
    /\ (s_ft.fn # "search_label") => <>(s_ft.st # "req")

\* search_label has returned after three answers to page 1: 403, 403 and a
\* short page
C17_Witness ==
    /\ s_ft.fn = "search_label"
    /\ s_ft.st = "ret"
    /\ Len(s_log) = 3
    /\ \A i \in 1..3 : s_log[i].page = 1
    /\ s_log[1].status = 403 /\ s_log[2].status = 403 /\ s_log[3].status = 200

\* the loop counts search items
Counting == a_sc \in CountSecs

\* the fed records whose selected timestamp is present
Present == {i \in 1..Len(a_fed) : TsOfItem(a_sc, a_fed[i]) # <<>>}

\* the label of the row a timestamp is counted in
RowLabel(ts) ==
    CsvKey(CASE a_sc.kind = "prs" ->
                   (CASE a_args.bucket = "daily" -> "prs_daily"
                      [] a_args.bucket = "weekly" -> "prs_weekly"
                      [] OTHER -> "prs_monthly")
             [] a_sc.kind = "major" -> "major_weekly"
             [] OTHER -> "trends_weekly",
           ts)

\* C18: when all chunks have gone through a counting loop, the written counts
\* add up to the number of fetched records whose selected timestamp is
\* present, and the row of each bucket holds the number of those records
\* whose timestamp falls in the bucket, whatever chunks they came in.
C18_CountMode ==
    (Counting /\ a_pc = "done") =>
        LET rows == a_out[1].rows
        IN  /\ SumRows(rows) = Cardinality(Present)
            /\ \A i \in Present :
                  \E r \in 1..Len(rows) :
                      rows[r][1] = RowLabel(TsOfItem(a_sc, a_fed[i]))
            /\ \A r \in 1..Len(rows) :
                  rows[r][2] =
                      Cardinality({i \in Present :
                          RowLabel(TsOfItem(a_sc, a_fed[i])) = rows[r][1]})
            /\ \A q, r \in 1..Len(rows) : rows[q][1] = rows[r][1] => q = r

\* events at 2024-01-01T10:00:00Z, 2024-01-02T09:00:00Z and
\* 2024-01-08T10:00:00Z, the first two from different chunks, counted by
\* week: 2024-01-01 has 2, 2024-01-08 has 1
C18_Witness ==
    /\ a_sc = Sec("prs", "opened", <<>>, "fetch_search", TRUE)
    /\ a_args.bucket = "weekly"
    /\ a_pc = "done"
    /\ a_cuts = <<1, 2>>
    /\ Len(a_fed) = 3
    /\ a_fed[1].created_at = T1 /\ a_fed[2].created_at = T2
    /\ a_fed[3].created_at = T3
    /\ a_out[1].rows = <<<<<<2024, 1, 1, 0, 0, 0>>, 2>>, <<<<2024, 1, 8, 0, 0, 0>>, 1>>>>

\* the commit is not a bot's
NotBot(c) == ~EndsWithBot(c.login)

\* the members of the identity sets of the loop
Members == UNION {IdentSets[i][2] : i \in 1..Len(IdentSets)}

\* C19: with the bot filter on, no set holds a bot login, and the sets are
\* those the loop without the filter builds from the commits fed less the
\* bots' commits: a bot's commit adds nothing, not even its email, and the
\* other commits add what they add without the filter.
C19_BotFilter ==
    (a_sc.kind = "contrib" /\ a_args.exclude_bots /\ a_pc \in {"loop", "done"}) =>
        /\ \A m \in Members : ~EndsWithBot(m)
        /\ a_table = CountContributors([a_args EXCEPT !.exclude_bots = FALSE],
                                       SelectSeq(a_fed, NotBot), <<>>)

\* a bot's commit with an email and a contributor's commit in one week, the
\* filter on: one row, count 1
C19_Witness ==
    /\ a_sc.kind = "contrib"
    /\ a_args.exclude_bots
    /\ a_pc = "done"
    /\ Len(a_fed) = 2
    /\ a_fed[1] = [date |-> T1, login |-> "app[bot]", email |-> "bob@x"]
    /\ a_fed[2] = [date |-> T1, login |-> "alice", email |-> "alice"]
    /\ Len(ContribRows) = 1 /\ ContribRows[1][2] = 1

\* the commit without its email when it has a login
LoginOnly(c) == IF c.login # "" THEN [c EXCEPT !.email = ""] ELSE c

\* the identity sets the loop builds from the commits
SetsOf(fed) ==
    LET r == ItemsLoop(a_sc, a_args, a_win, fed, <<>>, <<>>)
    IN  IF a_sc.kind = "contrib" THEN r.table ELSE r.ctable

\* C20: the identity of a commit with a login comes from the login whatever
\* its email is: the sets are those of the same commits with the email of
\* every commit that has a login taken away, and every member is the login of
\* a commit fed or the email of a commit fed that has no login.
C20_LoginFirst ==
    (Unique /\ a_pc \in {"loop", "done"}) =>
        /\ IdentSets = SetsOf([i \in 1..Len(a_fed) |-> LoginOnly(a_fed[i])])
        /\ \A m \in Members :
              \E i \in 1..Len(a_fed) :
                  LET c == a_fed[i]
                  IN  IF a_sc.kind = "contrib"
                      THEN \/ c.login # "" /\ m = c.login
                           \/ c.login = "" /\ c.email # "" /\ m = c.email
                      ELSE \/ c.login # "" /\ m = <<"login", c.login>>
                           \/ c.login = "" /\ c.email # "" /\ m = <<"email", c.email>>
                           \/ c.login = "" /\ c.email = "" /\ m = <<"unknown">>

\* two commits of one login with different emails in one week: count 1
C20_Witness ==
    /\ Unique
    /\ a_pc = "done"
    /\ Len(a_fed) = 2
    /\ a_fed[1] = [date |-> T3, login |-> "alice", email |-> "alice"]
    /\ a_fed[2] = [date |-> T3, login |-> "alice", email |-> "bob@x"]
    /\ Len(ContribRows) = 1 /\ ContribRows[1][2] = 1

(***************************************************************************)
(* Properties of the runs, of the chunk loop and of the retry loop.        *)
(***************************************************************************)
\* C24 as stated: for start <= end and any integer chunk_days, each iteration
\* of the chunk loop of daterange_chunks moves the cursor strictly forward.
C24_Original ==
    [][(c_start <= c_end /\ c_out' # c_out) => c_cur' > c_cur]_vars

\* the server has found no record for any query of the run so far
NoRecords == budget = MaxRecords /\ q_left = 0

\* C21: a run for whose queries the server finds no record does not fail,
\* unless a request is answered with an error status or the run ends before
\* its first request (invalid range, no token); its tables stay empty, and
\* when it is over it has written every file of every section, each with the
\* header and no data row.
C21_EmptyRun ==
    NoRecords =>
        /\ pc = "failed" => err \in {"HTTP", "InvalidRange", "NoToken"}
        /\ table = <<>> /\ ctable = <<>> /\ pending = <<>>
        /\ \A i \in 1..Len(out) : out[i].rows = <<>>
        /\ pc = "done" =>
              [i \in 1..Len(out) |-> out[i].path] = PathsBefore(Len(TheSections) + 1)

\* github_prs_to_csv has queried two chunks, found nothing, and written its
\* file without a data row
C21_Witness ==
    /\ script = "prs"
    /\ pc = "done"
    /\ NoRecords
    /\ net = 2
    /\ win[2] = win[1] + 1
    /\ args.chunk_days = 1
    /\ out = <<[path |-> <<"out">>, rows |-> <<>>]>>

\* C22 as stated: after a run over several labels the result of every label
\* is in the output: no file a label's section wrote has been written over by
\* the section of another label.
C22_Original ==
    pc = "done" =>
        \A i, j \in 1..Len(out) : out[i].path = out[j].path => i = j

\* the step begins the query of a chunk (or the one query of a section
\* without chunks)
QueryBegins == pc # "fetch" /\ pc' = "fetch"

\* the step is a page request of the fetch in progress, and its answer
PageRequest == pc = "fetch" /\ net' = net + 1

\* C23: requests are issued one at a time and in order.  A query begins only
\* when the fetch before it has ended and the lookups for its items are over,
\* and it begins with page 1; each further request of the fetch asks for the
\* page after the one just answered with success (search_label, which has no
\* chunks, asks for the same page again after a 403); within a section the
\* chunks are queried in ascending date order, each starting after the end of
\* the one before.
C23_Sequential ==
    [][/\ net' \in {net, net + 1}
       /\ QueryBegins =>
             /\ pc = "chunk" /\ ft.st # "req" /\ pending = <<>>
             /\ ft'.st = "req" /\ ft'.page = 1 /\ ft'.items = <<>>
             /\ net' = net
             /\ TheSection.chunked => (win[1] <= cur /\ cur <= win[2])
       /\ PageRequest =>
             /\ ft.st = "req"
             /\ sec' = sec
             /\ IF ft'.st = "req"
                THEN /\ pc' = "fetch" /\ cur' = cur
                     /\ IF last' = 200 THEN ft'.page = ft.page + 1
                        ELSE /\ last' = 403 /\ TheSection.fn = "search_label"
                             /\ ~TheSection.chunked /\ ft'.page = ft.page
                ELSE pc' # "fetch"
       /\ (pc # "start" /\ TheSection.chunked /\ sec' = sec /\ cur' # cur) =>
             /\ pc \in {"fetch", "pull"} /\ pc' = "chunk"
             /\ cur' = ChunkEnd(cur, win[2], args.chunk_days) + 1
             /\ cur' > cur]_vars

\* github_prs_to_csv has asked for pages 1 and 2 of its first chunk and is
\* about to ask for page 1 of its second chunk
C23_Witness ==
    /\ script = "prs"
    /\ args.metric = "opened"
    /\ pc = "fetch"
    /\ ft.st = "req" /\ ft.page = 1
    /\ cur = win[1] + 1
    /\ net = 2
    /\ Len(table) >= 1
    /\ budget = 0

\* the fetch of search_label after k requests, each answered with success,
\* against a server that holds srv
RECURSIVE Unlimited(_, _, _)
Unlimited(srv, maxp, k) ==
    IF k = 0 THEN FetchInit("search_label", maxp)
    ELSE LET f == Unlimited(srv, maxp, k - 1)
         IN  FetchStep(f, 200, PageOf(srv, f.page), HasNext(srv, f.page))

\* C25: in search_label the 403 answers change nothing: whatever 403 answers
\* came among the successful ones, the page to ask for and the items kept are
\* those of a fetch that got the successful answers only, and the items
\* returned are the records of the server, each once and in its order.
C25_RetryFrame ==
    (s_ft.fn = "search_label"
     /\ \A i \in 1..Len(s_log) : s_log[i].status \in {200, 403}) =>
        /\ s_ft = Unlimited(s_srv, s_ft.maxp, Cardinality(Successful))
        /\ s_ft.st = "ret" => s_ft.items = s_srv

\* search_label has returned the three records of the server after a 403
\* answer between its two pages
C25_Witness ==
    /\ s_ft.fn = "search_label"
    /\ s_ft.st = "ret"
    /\ Len(s_log) = 3
    /\ s_log[1].status = 200 /\ s_log[2].status = 403 /\ s_log[3].status = 200
    /\ s_log[2].page = 2 /\ s_log[3].page = 2
    /\ s_ft.items = <<1, 2, 3>>

\* C26: every row of every file a run has written has a count of at least 1,
\* every key of an aggregation table has a count of at least 1 and every key
\* of a table of identity sets has a set with a member: a key is made only
\* when a record is added to it.
C26_RowsPositive ==
    /\ \A i \in 1..Len(out) :
          \A j \in 1..Len(out[i].rows) : out[i].rows[j][2] >= 1
    /\ \A i \in 1..Len(table) :
          IF script = "contrib" THEN table[i][2] # {} ELSE table[i][2] >= 1
    /\ \A i \in 1..Len(ctable) : ctable[i][2] # {}

\* github_prs_to_csv, by day, over a window of two days with one event on
\* the first: the file has the row of that day and no row for the other
C26_Witness ==
    /\ script = "prs"
    /\ args.bucket = "daily"
    /\ pc = "done"
    /\ win[2] = win[1] + 1
    /\ Len(out) = 1
    /\ out[1].rows = <<<<<<2024, 1, 1, 0, 0, 0>>, 1>>>>

\* C27: in the loop over commits of github_weekly_trends the table of commit
\* counts and the table of contributor sets have the same week keys, every
\* week has at least 1 contributor and at most as many as it has commits, and
\* both tables are those of the commits dated within the window alone.
C27_CommitTables ==
    (a_sc.kind = "commits" /\ a_pc \in {"loop", "done"}) =>
        LET r == CountCommits(a_win, SelectSeq(a_fed, Dated), <<>>, <<>>)
        IN  /\ KeysOf(a_table) = KeysOf(a_ctable)
            /\ \A i \in 1..Len(a_table) :
                  LET n == Cardinality(SetAt(a_ctable, a_table[i][1]))
                  IN  1 <= n /\ n <= a_table[i][2]
            /\ a_table = r.table /\ a_ctable = r.ctable
            /\ a_pc = "done" =>
                  /\ Len(CommitRows) = Len(ContribRows)
                  /\ \A i \in 1..Len(CommitRows) :
                        /\ CommitRows[i][1] = ContribRows[i][1]
                        /\ 1 <= ContribRows[i][2]
                        /\ ContribRows[i][2] <= CommitRows[i][2]

\* a commit of the day before the window and a commit within it: one week
\* in both files
C27_Witness ==
    /\ a_sc.kind = "commits"
    /\ a_pc = "done"
    /\ a_win[1] = Ymd2Ord(2024, 1, 2)
    /\ Len(a_fed) = 2
    /\ a_fed[1].date = T1 /\ a_fed[2].date = T3
    /\ a_fed[1].login = "alice" /\ a_fed[2].login = "alice"
    /\ CommitRows = <<<<<<2024, 1, 8, 0, 0, 0>>, 1>>>>
    /\ ContribRows = <<<<<<2024, 1, 8, 0, 0, 0>>, 1>>>>

====
